---- MODULE Spec2Model ----
(***************************************************************************)
(* Model of src/main.rs, the Darkest Dungeon II save "scummer": it finds   *)
(* the profile directory of the game, makes sure the backup store exists   *)
(* and copies the profile into a directory named by the current instant.   *)
(*                                                                         *)
(* The filesystem is a function from the paths that exist to their nodes.  *)
(* A path is a sequence of component names; a node is a directory or a     *)
(* regular file with a content (symbolic links are not modelled).  Every   *)
(* fallible std::fs call fails where the operating system makes it fail    *)
(* (a component that is a regular file, a missing directory, ...) and, in  *)
(* addition, wherever an action injects an I/O fault.  chrono::Utc::now()  *)
(* is the wall clock: each read yields any instant.                        *)
(*                                                                         *)
(* Three specifications share the state:                                   *)
(*   Spec         one run of main, from every initial filesystem;          *)
(*   SpecLocator  calls of find_profiles_dirs and ensure_scumm_dir;        *)
(*   SpecScumm    up to two calls of scumm_profile (and so of the          *)
(*                copier), the game saving in between.                     *)
(* The variables call, prev, fail, writes and runs are history variables:  *)
(* they record what happened and no action of the program reads them.      *)
(***************************************************************************)
EXTENDS Integers, Sequences, FiniteSets, TLC

(***************************** bounds **************************************)
\* most direct entries the save root holds in an initial state
MaxIds == 2
\* file contents are the "bytes" 0..MaxByte
MaxByte == 1
\* the wall clock yields the instants 0..MaxClock (chrono::Utc::now)
MaxClock == 1

(***************************** paths ***************************************)
\* whoami::username()
Username == "player"

\* PathBuf::push / Path::join with a relative component
Join(p, name) == Append(p, name)

Parent(p) == SubSeq(p, 1, Len(p) - 1)

IsPrefix(p, q) == Len(p) <= Len(q) /\ SubSeq(q, 1, Len(p)) = p

Prefixes(p) == {SubSeq(p, 1, n) : n \in 1..Len(p)}

\* Names that are not valid Unicode (unpaired surrogates on Windows, arbitrary
\* bytes on Unix): Path::to_str returns None for a path holding one.
NonUnicodeNames == {"id\\xFF"}

\* Path::to_str: Some(path) only when every component is valid Unicode
ToStr(p) ==
    IF \E i \in 1..Len(p) : p[i] \in NonUnicodeNames
    THEN [some |-> FALSE, str |-> <<>>]
    ELSE [some |-> TRUE, str |-> p]

(***************************** filesystem **********************************)
Dir == [kind |-> "dir", content |-> 0]

File(c) == [kind |-> "file", content |-> c]

\* Path::exists
Exists(f, p) == p \in DOMAIN f

IsDir(f, p) == p \in DOMAIN f /\ f[p].kind = "dir"

IsFile(f, p) == p \in DOMAIN f /\ f[p].kind = "file"

\* the names of the direct entries of directory p
EntryNames(f, p) == {q[Len(q)] : q \in {r \in DOMAIN f : Len(r) = Len(p) + 1 /\ IsPrefix(p, r)}}

\* the orders in which a directory listing may yield the names of S
Orders(S) == {s \in [1..Cardinality(S) -> S] : \A i, j \in 1..Cardinality(S) : s[i] = s[j] => i = j}

\* the subtree below p, as relative path -> node
Tree(f, p) ==
    [r \in {SubSeq(q, Len(p) + 1, Len(q)) : q \in {x \in DOMAIN f : IsPrefix(p, x) /\ x # p}}
        |-> f[p \o r]]

(***************************** results *************************************)
\* one layer of an anyhow error chain: an error or a context message, with
\* the paths its message interpolates, in order
Layer(kind, msg, names) == [kind |-> kind, msg |-> msg, names |-> names]

Ok(v) == [tag |-> "Ok", val |-> v, err |-> <<>>]

\* err: the chain, outermost context first, root cause last
Err(chain) == [tag |-> "Err", val |-> <<>>, err |-> chain]

Panic(msg) == [tag |-> "Panic", val |-> <<>>, err |-> <<Layer("panic", msg, <<>>)>>]

\* anyhow's .context(msg) on a Result
Context(r, msg, names) ==
    IF r.tag = "Err" THEN Err(<<Layer("context", msg, names)>> \o r.err) ELSE r

(***************************** std::fs *************************************)
\* fs::create_dir(p) fails when p exists or its parent is not a directory
\* (and on an injected I/O fault: permissions, disk full, ...)
CreateDirFails(f, p, fault) == fault \/ Exists(f, p) \/ ~IsDir(f, Parent(p))

CreateDir(f, p) == (p :> Dir) @@ f

\* fs::create_dir_all(p) fails when p or one of its ancestors is a regular file
CreateDirAllFails(f, p, fault) == fault \/ \E q \in Prefixes(p) : IsFile(f, q)

\* ... and otherwise creates p and every missing ancestor
CreateDirAll(f, p) == [q \in DOMAIN f \cup Prefixes(p) |-> IF q \in DOMAIN f THEN f[q] ELSE Dir]

\* fs::read_dir(p) fails when p is not a directory
ReadDirFails(f, p, fault) == fault \/ ~IsDir(f, p)

\* fs::copy(from, to) fails when from is not a regular file, when to is a
\* directory or when to's parent is not a directory
FsCopyFails(f, from, to, fault) ==
    fault \/ ~IsFile(f, from) \/ IsDir(f, to) \/ ~IsDir(f, Parent(to))

\* faulty variant: creates to but loses from's content
FsCopyTruncating(f, from, to) == [q \in DOMAIN f \cup {to} |-> IF q = to THEN File(0) ELSE f[q]]

\* ... and otherwise creates or overwrites to with from's content
FsCopy(f, from, to) == [q \in DOMAIN f \cup {to} |-> IF q = to THEN File(f[from].content) ELSE f[q]]

(***************************** locators ************************************)
ExpectedPath == <<"C:", "Users", Username, "AppData", "LocalLow", "RedHook", "Darkest Dungeon II">>

SCUMM_DIR_NAME == "scummed"

NotFound(msg, names) == Err(<<Layer("NotFound", msg, names)>>)

IoError(op) == Err(<<Layer("io", op, <<>>)>>)

find_darkest_dungeon_2_app_data_dir(f) ==
    IF ~Exists(f, ExpectedPath)
    THEN NotFound("Darkest Dungeon 2 app dir not found", <<>>)
    ELSE Ok(ExpectedPath)

\* faulty variant: no early return when the directory exists already
ensure_scumm_dir_recreating(f, fault) ==
    LET dd2_app_dir == find_darkest_dungeon_2_app_data_dir(f)
        scumm_dir == Join(dd2_app_dir.val, SCUMM_DIR_NAME)
    IN  IF dd2_app_dir.tag = "Err"
        THEN [res |-> Context(dd2_app_dir, "Failed to create scumm dir", <<>>), fs |-> f]
        ELSE IF CreateDirFails(f, scumm_dir, fault)
        THEN [res |-> Context(IoError("create_dir"), "Failed to create scumm dir", <<>>), fs |-> f]
        ELSE [res |-> Ok(scumm_dir), fs |-> CreateDir(f, scumm_dir)]

\* the result and the filesystem the call leaves
ensure_scumm_dir(f, fault) ==
    LET dd2_app_dir == find_darkest_dungeon_2_app_data_dir(f)
        scumm_dir == Join(dd2_app_dir.val, SCUMM_DIR_NAME)
    IN  IF dd2_app_dir.tag = "Err"
        THEN [res |-> Context(dd2_app_dir, "Failed to create scumm dir", <<>>), fs |-> f]
        ELSE IF Exists(f, scumm_dir)
        THEN [res |-> Ok(scumm_dir), fs |-> f]
        ELSE IF CreateDirFails(f, scumm_dir, fault)
        THEN [res |-> Context(IoError("create_dir"), "Failed to create scumm dir", <<>>), fs |-> f]
        ELSE [res |-> Ok(scumm_dir), fs |-> CreateDir(f, scumm_dir)]

find_save_dir(f) ==
    LET app_dir == find_darkest_dungeon_2_app_data_dir(f)
        save_dir == Join(app_dir.val, "SaveFiles")
    IN  IF app_dir.tag = "Err"
        THEN Context(app_dir, "Failed to find save dir", <<>>)
        ELSE IF ~Exists(f, save_dir)
        THEN NotFound("Darkest Dungeon 2 save dir not found in app dir", <<>>)
        ELSE Ok(save_dir)

\* order: the order in which read_dir yields the entries of the save dir;
\* failAt: the position of the entry whose read fails (0: none does)
find_user_id_dirs(f, order, failAt) ==
    LET save_dir == find_save_dir(f)
    IN  IF save_dir.tag = "Err"
        THEN Context(save_dir, "Failed to find user id dirs", <<>>)
        ELSE IF ReadDirFails(f, save_dir.val, FALSE)
        THEN Context(IoError("read_dir"), "Failed to read_dir while looking for user id dirs", <<>>)
        ELSE IF failAt \in 1..Len(order)
        THEN Context(IoError("read_dir entry"), "Failed to read sub dir while looking for user id dir", <<>>)
        ELSE Ok([i \in 1..Len(order) |-> Join(save_dir.val, order[i])])

\* the positions of the user id dirs that have no profiles child
MissingProfiles(f, user_id_dirs) ==
    {i \in 1..Len(user_id_dirs) : ~Exists(f, Join(user_id_dirs[i], "profiles"))}

FirstOf(S) == CHOOSE i \in S : \A j \in S : i <= j

\* faulty variant: the profiles segment is never pushed onto the result
ProfilesOfWithoutPush(f, user_id_dirs) ==
    LET missing == MissingProfiles(f, user_id_dirs)
        profiles_dir == Join(user_id_dirs[FirstOf(missing)], "profiles")
    IN  IF missing = {}
        THEN Ok(user_id_dirs)
        ELSE IF ~ToStr(profiles_dir).some
        THEN Panic("dir path should be a valid string")
        ELSE NotFound("Profiles dir not found at", <<ToStr(profiles_dir).str>>)

\* the loop of find_profiles_dirs over the user id dirs
ProfilesOf(f, user_id_dirs) ==
    LET missing == MissingProfiles(f, user_id_dirs)
        profiles_dir == Join(user_id_dirs[FirstOf(missing)], "profiles")
    IN  IF missing = {}
        THEN Ok([i \in 1..Len(user_id_dirs) |-> Join(user_id_dirs[i], "profiles")])
        ELSE IF ~ToStr(profiles_dir).some
        THEN Panic("dir path should be a valid string")
        ELSE NotFound("Profiles dir not found at", <<ToStr(profiles_dir).str>>)

find_profiles_dirs(f, order, failAt) ==
    LET user_id_dirs == Context(find_user_id_dirs(f, order, failAt),
                                "Failed to find user id dirs while looking for profile dirs", <<>>)
    IN  IF user_id_dirs.tag = "Err" THEN user_id_dirs ELSE ProfilesOf(f, user_id_dirs.val)

(***************************** recursive copier ****************************)
\* The call stack of copy_dir_recursively, innermost call last.  A frame is
\* at "enter" (before create_dir_all), in its "loop" over the entries still
\* in todo, or at "await" while the recursive call for Head(todo) runs.
Frame(src, dst) == [src |-> src, dst |-> dst, st |-> "enter", todo |-> <<>>]

NoRet == [tag |-> "None", val |-> <<>>, err |-> <<>>]

Top(stack) == stack[Len(stack)]

Pop(stack) == SubSeq(stack, 1, Len(stack) - 1)

SetTop(stack, fr) == [stack EXCEPT ![Len(stack)] = fr]

\* the machine after the innermost call returns r to its caller
Return(f, stack, r) == [fs |-> f, stack |-> Pop(stack), ret |-> r]

\* the std::fs call an error chain started at (its root cause)
RootOp(r) == r.err[Len(r.err)].msg

\* lines 9-10: create_dir_all(dst), then read_dir(src) yielding order
CopyEnter(f, stack, fault, order) ==
    LET fr == Top(stack)
        f1 == CreateDirAll(f, fr.dst)
    IN  IF CreateDirAllFails(f, fr.dst, fault = "create_dir_all")
        THEN Return(f, stack, Context(IoError("create_dir_all"), "failed to create dst dir:", <<fr.dst>>))
        ELSE IF ReadDirFails(f1, fr.src, fault = "read_dir")
        THEN Return(f1, stack, Context(IoError("read_dir"), "failed to read src dir:", <<fr.src>>))
        ELSE [fs |-> f1, stack |-> SetTop(stack, [fr EXCEPT !.st = "loop", !.todo = order]), ret |-> NoRet]

\* lines 11-21: one iteration of the loop, up to the recursive call or
\* through fs::copy
CopyEntry(f, stack, fault) ==
    LET fr == Top(stack)
        from == Join(fr.src, Head(fr.todo))
        to == Join(fr.dst, Head(fr.todo))
    IN  IF fault = "entry"
        THEN Return(f, stack, IoError("read_dir entry"))
        ELSE IF fault = "file_type"
        THEN Return(f, stack, IoError("file_type"))
        ELSE IF IsDir(f, from)
        THEN [fs |-> f, stack |-> Append(SetTop(stack, [fr EXCEPT !.st = "await"]), Frame(from, to)),
              ret |-> NoRet]
        ELSE IF FsCopyFails(f, from, to, fault = "copy")
        THEN Return(f, stack, Context(IoError("copy"), "Failed trying to copy from {} to {}", <<from, to>>))
        ELSE [fs |-> FsCopy(f, from, to), stack |-> SetTop(stack, [fr EXCEPT !.todo = Tail(fr.todo)]),
              ret |-> NoRet]

\* faulty variant: the error of the recursive call is dropped and the loop goes on
CopyChildReturnIgnoring(f, stack, r) ==
    [fs |-> f,
     stack |-> SetTop(stack, [Top(stack) EXCEPT !.st = "loop", !.todo = Tail(Top(stack).todo)]),
     ret |-> r]

\* lines 14-16: the recursive call returned r; `?` after .context(...)
CopyChildReturn(f, stack, r) ==
    LET fr == Top(stack)
        from == Join(fr.src, Head(fr.todo))
        to == Join(fr.dst, Head(fr.todo))
    IN  IF r.tag = "Err"
        THEN Return(f, stack, Context(r, "Failed trying to copy from {} to {}", <<from, to>>))
        ELSE [fs |-> f, stack |-> SetTop(stack, [fr EXCEPT !.st = "loop", !.todo = Tail(fr.todo)]),
              ret |-> NoRet]

\* line 23: the loop is over
CopyLoopEnd(f, stack) == Return(f, stack, Ok(<<>>))

(***************************** scumm_profile *******************************)
Digit == <<"0", "1", "2", "3", "4", "5", "6", "7", "8", "9">>

\* faulty variant: the format stops at the seconds ("%Y-%m-%dT%H-%M-%S")
FormatTimestampToSeconds(now) == "1970-01-01T00-00-00"

\* a chrono::DateTime<Utc>: nanoseconds since 1970-01-01T00:00:00Z (below 10).
\* now.format("%Y-%m-%dT%H-%M-%S.%f"): %f prints the nanoseconds of the second
FormatTimestamp(now) == "1970-01-01T00-00-00." \o "00000000" \o Digit[now + 1]

\* lines 137-148: the existence check, the destination path and the entry
\* into copy_dir_recursively (the stack holding its first frame)
ScummStart(f, profile_dir, scumm_dir, now) ==
    LET dest_path == Join(scumm_dir, FormatTimestamp(now))
    IN  IF ~Exists(f, profile_dir)
        THEN [ret |-> IF ToStr(profile_dir).some
                      THEN NotFound("Profiles dir not found at", <<ToStr(profile_dir).str>>)
                      ELSE Panic("dir path should be a valid string"),
              dest_path |-> <<>>, stack |-> <<>>]
        ELSE [ret |-> NoRet, dest_path |-> dest_path, stack |-> <<Frame(profile_dir, dest_path)>>]

\* lines 150-156: `?` on the copier's result, then the ScummedProfile
ScummFinish(r, profile_dir, dest_path, now) ==
    IF r.tag = "Err"
    THEN r
    ELSE Ok([source_path |-> profile_dir, dest_path |-> dest_path, time_scummed |-> now])

(***************************** main ****************************************)
Line(text, e, n, paths) == [text |-> text, e |-> e, n |-> n, paths |-> paths]

\* {e} of an anyhow error displays its outermost message
Display(r) == <<Head(r.err)>>

\* faulty variant: no guard against more than one profile dir
MainSelectFirst(profile_dirs) ==
    IF profile_dirs.tag = "Panic"
    THEN [exit |-> "panicked", out |-> <<>>, profile_dir |-> <<>>]
    ELSE IF profile_dirs.tag = "Err"
    THEN [exit |-> "returned", out |-> <<Line("Failed to find profile dirs: {e}", <<Head(profile_dirs.err)>>, 0, <<>>)>>,
          profile_dir |-> <<>>]
    ELSE IF ~(Len(profile_dirs.val) > 0)
    THEN [exit |-> "panicked", out |-> <<>>, profile_dir |-> <<>>]
    ELSE [exit |-> "running", out |-> <<>>, profile_dir |-> profile_dirs.val[1]]

\* lines 161-178: what main does with the result of find_profiles_dirs
MainSelect(profile_dirs) ==
    IF profile_dirs.tag = "Panic"
    THEN [exit |-> "panicked", out |-> <<>>, profile_dir |-> <<>>]
    ELSE IF profile_dirs.tag = "Err"
    THEN [exit |-> "returned", out |-> <<Line("Failed to find profile dirs: {e}", Display(profile_dirs), 0, <<>>)>>,
          profile_dir |-> <<>>]
    ELSE IF ~(Len(profile_dirs.val) > 0)
    THEN [exit |-> "panicked", out |-> <<>>, profile_dir |-> <<>>]
    ELSE IF Len(profile_dirs.val) > 1
    THEN [exit |-> "returned",
          out |-> <<Line("Found {} profile dirs, but currently only support 1 dir", <<>>, Len(profile_dirs.val), <<>>)>>,
          profile_dir |-> <<>>]
    ELSE [exit |-> "running", out |-> <<>>, profile_dir |-> profile_dirs.val[1]]

\* lines 180-186
MainEnsured(scumm_dir) ==
    IF scumm_dir.tag = "Err"
    THEN [exit |-> "returned", out |-> <<Line("failed to ensure scumm dir: {e}", Display(scumm_dir), 0, <<>>)>>]
    ELSE [exit |-> "running", out |-> <<>>]

\* lines 188-198
MainReported(scummed) ==
    IF scummed.tag = "Panic"
    THEN [exit |-> "panicked", out |-> <<>>]
    ELSE IF scummed.tag = "Err"
    THEN [exit |-> "returned", out |-> <<Line("failed to scumm profile: {e}", Display(scummed), 0, <<>>)>>]
    ELSE [exit |-> "returned",
          out |-> <<Line("successfully scummed current profile from {:?} to {:?}", <<>>, 0,
                         <<scummed.val.source_path, scummed.val.dest_path>>)>>]

(***************************** initial filesystems *************************)
Bytes == 0..MaxByte

SaveDirPath == Join(ExpectedPath, "SaveFiles")

ScummDirPath == Join(ExpectedPath, SCUMM_DIR_NAME)

ProfilesPath(id) == Join(Join(SaveDirPath, id), "profiles")

\* a filesystem from a set of <<path, node>> pairs
FsOf(entries) == [p \in {e[1] : e \in entries} |-> (CHOOSE e \in entries : e[1] = p)[2]]

DirsTo(p) == {<<q, Dir>> : q \in Prefixes(p)}

IdNames == {"id1", "id2"} \cup NonUnicodeNames

\* a direct entry of the save root: a regular file, a directory without a
\* profiles child, or a directory with a profiles directory holding one file
IdEntries(id, kind) ==
    CASE kind = "file" -> {<<Join(SaveDirPath, id), File(0)>>}
      [] kind = "empty" -> {<<Join(SaveDirPath, id), Dir>>}
      [] OTHER -> {<<Join(SaveDirPath, id), Dir>>, <<ProfilesPath(id), Dir>>,
                   <<Join(ProfilesPath(id), "save1.dat"), File(0)>>}

SaveVariants ==
    {{}, {<<SaveDirPath, File(0)>>}}
    \cup {{<<SaveDirPath, Dir>>} \cup UNION {IdEntries(id, cfg[id]) : id \in DOMAIN cfg} :
            cfg \in UNION {[S -> {"file", "empty", "profile"}] :
                            S \in {T \in SUBSET IdNames : Cardinality(T) <= MaxIds}}}

\* the backup store: absent, an empty directory, a regular file of that name,
\* or a directory holding an older backup named by the instant 0
ScummedVariants ==
    [absent |-> {},
     dir |-> {<<ScummDirPath, Dir>>},
     file |-> {<<ScummDirPath, File(0)>>},
     stale |-> {<<ScummDirPath, Dir>>, <<Join(ScummDirPath, FormatTimestamp(0)), Dir>>,
                <<Join(Join(ScummDirPath, FormatTimestamp(0)), "stale.dat"), File(0)>>}]

\* the profile directories copied: a regular file named profiles, or a tree of
\* an optional save1.dat and an optional meta/, which is empty or holds
\* info.json or holds a directory old/ with a file info.json
ProfileVariants ==
    LET P == ProfilesPath("id1")
        M == Join(P, "meta")
        top == {{}} \cup {{<<Join(P, "save1.dat"), File(c)>>} : c \in Bytes}
        meta == {{}, {<<M, Dir>>}}
                \cup {{<<M, Dir>>, <<Join(M, "info.json"), File(c)>>} : c \in Bytes}
                \cup {{<<M, Dir>>, <<Join(M, "old"), Dir>>, <<Join(Join(M, "old"), "info.json"), File(MaxByte)>>}}
    IN  {{<<P, File(0)>>}} \cup {{<<P, Dir>>} \cup a \cup b : a \in top, b \in meta}

LocatorStates ==
    {FsOf(DirsTo(Parent(ExpectedPath)))}
    \cup {FsOf(DirsTo(ExpectedPath) \cup ScummedVariants[sc] \cup sv) :
            sc \in {"absent", "dir", "file"}, sv \in SaveVariants}

CopyStates ==
    {FsOf(DirsTo(Join(SaveDirPath, "id1")) \cup ScummedVariants[sc] \cup pv) :
        sc \in DOMAIN ScummedVariants, pv \in ProfileVariants}

(***************************** state ***************************************)
VARIABLES
    fs,         \* the filesystem
    pc,         \* where the process is: "idle", "main", "m_ensure", "m_scumm", "copy", "s_end", "m_report", "exit"
    caller,     \* who called scumm_profile: "main" or "test"
    stack,      \* the call stack of copy_dir_recursively
    ret,        \* the result the innermost copier call just returned
    cur,        \* scumm_profile's profile_dir and dest_path
    findRes,    \* the last result of find_profiles_dirs
    ensureRes,  \* the last result of ensure_scumm_dir
    scummRes,   \* the last result of scumm_profile
    stdout,     \* the lines main printed
    exit,       \* "running", "returned" or "panicked"
    call,       \* history: the last top-level call, the filesystem before it, the listing it saw
    prev,       \* history: the call before it and its result
    fail,       \* history: the first std::fs call of the copier that failed
    writes,     \* history: the paths the copier created or wrote in this call
    runs        \* history: the completed scumm_profile calls

vars == <<fs, pc, caller, stack, ret, cur, findRes, ensureRes, scummRes, stdout, exit,
          call, prev, fail, writes, runs>>

NoCall == [op |-> "none", fs0 |-> <<>>, order |-> <<>>, failAt |-> 0]

NoPrev == [op |-> "none", tag |-> "None", val |-> <<>>]

NoFail == [op |-> "none", src |-> <<>>, dst |-> <<>>, depth |-> 0, fs |-> <<>>]

NoCur == [profile_dir |-> <<>>, dest_path |-> <<>>, now |-> 0]

InitWith(states, at) ==
    /\ fs \in states
    /\ pc = at
    /\ caller = IF at = "main" THEN "main" ELSE "test"
    /\ stack = <<>>
    /\ ret = NoRet
    /\ cur = NoCur
    /\ findRes = NoRet
    /\ ensureRes = NoRet
    /\ scummRes = NoRet
    /\ stdout = <<>>
    /\ exit = "running"
    /\ call = NoCall
    /\ prev = NoPrev
    /\ fail = NoFail
    /\ writes = {}
    /\ runs = <<>>

(***************************** actions: the locators ***********************)
\* a test calls find_profiles_dirs(); the listing of the save dir comes in
\* some order and the read of one of its entries may fail
CallFind ==
    /\ pc = "idle"
    /\ \E order \in Orders(EntryNames(fs, SaveDirPath)) : \E failAt \in 0..Len(order) :
        /\ findRes' = find_profiles_dirs(fs, order, failAt)
        /\ call' = [op |-> "find_profiles_dirs", fs0 |-> fs, order |-> order, failAt |-> failAt]
    /\ prev' = [op |-> call.op, tag |-> "None", val |-> <<>>]
    /\ UNCHANGED <<fs, pc, caller, stack, ret, cur, ensureRes, scummRes, stdout, exit, fail, writes, runs>>

\* a test calls ensure_scumm_dir(); fs::create_dir may fail
CallEnsure ==
    /\ pc = "idle"
    /\ \E fault \in BOOLEAN :
        LET r == ensure_scumm_dir(fs, fault)
        IN  /\ ensureRes' = r.res
            /\ fs' = r.fs
    /\ call' = [op |-> "ensure_scumm_dir", fs0 |-> fs, order |-> <<>>, failAt |-> 0]
    /\ prev' = IF call.op = "ensure_scumm_dir"
               THEN [op |-> call.op, tag |-> ensureRes.tag, val |-> ensureRes.val]
               ELSE [op |-> call.op, tag |-> "None", val |-> <<>>]
    /\ UNCHANGED <<pc, caller, stack, ret, cur, findRes, scummRes, stdout, exit, fail, writes, runs>>

InitLocator == InitWith(LocatorStates, "idle")

NextLocator == CallFind \/ CallEnsure

SpecLocator == InitLocator /\ [][NextLocator]_vars

(***************************** actions: scumm_profile and the copier ********)
Instants == 0..MaxClock

\* scumm_profile(profile_dir, scumm_dir) is entered at the instant now
EnterScumm(profile_dir, scumm_dir, now, op) ==
    LET m == ScummStart(fs, profile_dir, scumm_dir, now)
    IN  /\ cur' = [profile_dir |-> profile_dir, dest_path |-> m.dest_path, now |-> now]
        /\ stack' = m.stack
        /\ ret' = NoRet
        /\ scummRes' = m.ret
        /\ pc' = IF m.stack # <<>> THEN "copy" ELSE IF caller = "main" THEN "m_report" ELSE "idle"
        /\ call' = [op |-> op, fs0 |-> fs, order |-> call.order, failAt |-> call.failAt]
        /\ fail' = NoFail
        /\ writes' = {}
        /\ runs' = IF m.stack = <<>> /\ caller = "test"
                   THEN Append(runs, [tag |-> m.ret.tag, now |-> now, dest |-> <<>>,
                                      tree |-> <<>>, before |-> {}])
                   ELSE runs

\* the profile directories a test passes: the one that exists, a missing one,
\* and a missing one whose name is not valid Unicode
ProfileCandidates == {ProfilesPath(id) : id \in IdNames}

\* a test calls scumm_profile; a second call follows a successful first one
CallScumm ==
    /\ pc = "idle"
    /\ runs = <<>> \/ (Len(runs) = 1 /\ runs[1].tag = "Ok")
    /\ \E profile_dir \in ProfileCandidates, now \in Instants :
        EnterScumm(profile_dir, ScummDirPath, now, "scumm_profile")
    /\ UNCHANGED <<fs, caller, findRes, ensureRes, stdout, exit, prev>>

\* one step of the copier changed the machine to m; src and dst are the
\* paths of the std::fs call the step made, wrote the paths it wrote
Stepped(m, src, dst, wrote) ==
    /\ fs' = m.fs
    /\ stack' = m.stack
    /\ ret' = m.ret
    /\ pc' = IF m.stack = <<>> THEN "s_end" ELSE "copy"
    /\ writes' = writes \cup wrote
    /\ fail' = IF fail.op = "none" /\ m.ret.tag = "Err"
               THEN [op |-> RootOp(m.ret), src |-> src, dst |-> dst, depth |-> Len(stack) - 1, fs |-> m.fs]
               ELSE fail
    /\ UNCHANGED <<caller, cur, findRes, ensureRes, scummRes, stdout, exit, call, prev, runs>>

DoCopyEnter ==
    /\ pc = "copy"
    /\ Top(stack).st = "enter"
    /\ \E fault \in {"none", "create_dir_all", "read_dir"} :
        \E order \in Orders(EntryNames(CreateDirAll(fs, Top(stack).dst), Top(stack).src)) :
            LET m == CopyEnter(fs, stack, fault, order)
            IN  Stepped(m, Top(stack).src, Top(stack).dst, DOMAIN m.fs \ DOMAIN fs)

DoCopyEntry ==
    /\ pc = "copy"
    /\ Top(stack).st = "loop"
    /\ Top(stack).todo # <<>>
    /\ \E fault \in {"none", "entry", "file_type", "copy"} :
        LET m == CopyEntry(fs, stack, fault)
            from == Join(Top(stack).src, Head(Top(stack).todo))
            to == Join(Top(stack).dst, Head(Top(stack).todo))
            copied == m.ret.tag = "None" /\ Len(m.stack) = Len(stack)
        IN  IF m.ret.tag = "Err" /\ RootOp(m.ret) # "copy"
            THEN Stepped(m, Top(stack).src, Top(stack).dst, {})
            ELSE Stepped(m, from, to, IF copied THEN {to} ELSE {})

DoCopyChildReturn ==
    /\ pc = "copy"
    /\ Top(stack).st = "await"
    /\ Stepped(CopyChildReturn(fs, stack, ret), Top(stack).src, Top(stack).dst, {})

DoCopyLoopEnd ==
    /\ pc = "copy"
    /\ Top(stack).st = "loop"
    /\ Top(stack).todo = <<>>
    /\ Stepped(CopyLoopEnd(fs, stack), Top(stack).src, Top(stack).dst, {})

\* the copier returned to scumm_profile
ScummEnd ==
    /\ pc = "s_end"
    /\ \E now \in Instants :
        /\ scummRes' = ScummFinish(ret, cur.profile_dir, cur.dest_path, now)
        /\ runs' = IF caller = "test"
                   THEN Append(runs, [tag |-> ret.tag, now |-> cur.now, dest |-> cur.dest_path,
                                      tree |-> Tree(call.fs0, cur.profile_dir),
                                      before |-> EntryNames(call.fs0, ScummDirPath)])
                   ELSE runs
    /\ pc' = IF caller = "main" THEN "m_report" ELSE "idle"
    /\ UNCHANGED <<fs, caller, stack, ret, cur, findRes, ensureRes, stdout, exit, call, prev, fail, writes>>

\* between two calls the game rewrites one of the files of the profile
GameSaves ==
    /\ pc = "idle"
    /\ Len(runs) = 1
    /\ runs[1].tag = "Ok"
    /\ \E p \in {q \in DOMAIN fs : IsPrefix(ProfilesPath("id1"), q) /\ IsFile(fs, q)} :
        \E c \in Bytes \ {fs[p].content} : fs' = [fs EXCEPT ![p] = File(c)]
    /\ UNCHANGED <<pc, caller, stack, ret, cur, findRes, ensureRes, scummRes, stdout, exit,
                   call, prev, fail, writes, runs>>

InitScumm == InitWith(CopyStates, "idle")

NextScumm ==
    \/ CallScumm
    \/ DoCopyEnter
    \/ DoCopyEntry
    \/ DoCopyChildReturn
    \/ DoCopyLoopEnd
    \/ ScummEnd
    \/ GameSaves

SpecScumm == InitScumm /\ [][NextScumm]_vars

(***************************** actions: main ********************************)
\* lines 161-178
MainFind ==
    /\ pc = "main"
    /\ \E order \in Orders(EntryNames(fs, SaveDirPath)) : \E failAt \in 0..Len(order) :
        LET r == find_profiles_dirs(fs, order, failAt)
            sel == MainSelect(r)
        IN  /\ findRes' = r
            /\ stdout' = stdout \o sel.out
            /\ exit' = sel.exit
            /\ pc' = IF sel.exit = "running" THEN "m_ensure" ELSE "exit"
            /\ cur' = [NoCur EXCEPT !.profile_dir = sel.profile_dir]
            /\ call' = [op |-> "main", fs0 |-> fs, order |-> order, failAt |-> failAt]
    /\ UNCHANGED <<fs, caller, stack, ret, ensureRes, scummRes, prev, fail, writes, runs>>

\* lines 180-186
MainEnsure ==
    /\ pc = "m_ensure"
    /\ \E fault \in BOOLEAN :
        LET r == ensure_scumm_dir(fs, fault)
            e == MainEnsured(r.res)
        IN  /\ ensureRes' = r.res
            /\ fs' = r.fs
            /\ stdout' = stdout \o e.out
            /\ exit' = e.exit
            /\ pc' = IF e.exit = "running" THEN "m_scumm" ELSE "exit"
    /\ UNCHANGED <<caller, stack, ret, cur, findRes, scummRes, call, prev, fail, writes, runs>>

\* line 188: the call of scumm_profile
MainScumm ==
    /\ pc = "m_scumm"
    /\ \E now \in Instants : EnterScumm(cur.profile_dir, ensureRes.val, now, "main")
    /\ UNCHANGED <<fs, caller, findRes, ensureRes, stdout, exit, prev>>

\* lines 188-198: the report
MainReport ==
    /\ pc = "m_report"
    /\ stdout' = stdout \o MainReported(scummRes).out
    /\ exit' = MainReported(scummRes).exit
    /\ pc' = "exit"
    /\ UNCHANGED <<fs, caller, stack, ret, cur, findRes, ensureRes, scummRes, call, prev, fail, writes, runs>>

Init == InitWith(LocatorStates \cup CopyStates, "main")

Next ==
    \/ MainFind
    \/ MainEnsure
    \/ MainScumm
    \/ DoCopyEnter
    \/ DoCopyEntry
    \/ DoCopyChildReturn
    \/ DoCopyLoopEnd
    \/ ScummEnd
    \/ MainReport

Spec == Init /\ [][Next]_vars

(***************************** claims: the locators ************************)
\* the save root is a directory whose listing succeeded in the last call
Listed == IsDir(call.fs0, SaveDirPath) /\ call.failAt = 0

\* the user id dirs in the order of the last listing
ListedDirs == [i \in 1..Len(call.order) |-> Join(SaveDirPath, call.order[i])]

\* C3: if a direct entry of the save root has no profiles child,
\* find_profiles_dirs returns a NotFound error naming the missing
\* <entry>/profiles path (the first one in enumeration order), never Ok.
C3_MissingProfilesIsNotFound ==
    (call.op = "find_profiles_dirs" /\ Listed /\ MissingProfiles(call.fs0, ListedDirs) # {}) =>
        /\ findRes.tag = "Err"
        /\ Len(findRes.err) = 1
        /\ findRes.err[1].kind = "NotFound"
        /\ findRes.err[1].names =
            <<Join(ListedDirs[FirstOf(MissingProfiles(call.fs0, ListedDirs))], "profiles")>>

C4_WitnessEmpty ==
    /\ call.op = "find_profiles_dirs"
    /\ Listed
    /\ findRes.tag = "Ok"
    /\ findRes.val = <<>>

\* C5: a call of ensure_scumm_dir right after one that returned Ok(p) returns
\* Ok(p) too and leaves the filesystem as it found it.
C5_EnsureIdempotent ==
    (call.op = "ensure_scumm_dir" /\ prev.op = "ensure_scumm_dir" /\ prev.tag = "Ok") =>
        /\ ensureRes.tag = "Ok"
        /\ ensureRes.val = prev.val
        /\ fs = call.fs0

\* the second call follows a first call that had to create the directory
C5_Witness ==
    /\ call.op = "ensure_scumm_dir"
    /\ prev.op = "ensure_scumm_dir"
    /\ prev.tag = "Ok"
    /\ ensureRes.tag = "Ok"
    /\ IsDir(fs, ScummDirPath)

\* C6: whenever ensure_scumm_dir returns Ok(p), p is the scummed child of the
\* app-data root and a directory exists at p.
C6_EnsuredIsDirectory ==
    (call.op = "ensure_scumm_dir" /\ ensureRes.tag = "Ok") =>
        /\ ensureRes.val = Join(ExpectedPath, "scummed")
        /\ IsDir(fs, ensureRes.val)

(***************************** claims: the copier **************************)
\* the top-level call of copy_dir_recursively has returned
CopyReturned == stack = <<>> /\ ret.tag \in {"Ok", "Err"}

\* the destination of the call did not exist when the call was made
FreshDest == ~Exists(call.fs0, cur.dest_path)

\* C1: when no filesystem operation fails, the copy to a fresh destination
\* returns Ok and the destination holds a tree equal to the source tree: the
\* same relative paths, kinds and file contents.
C1_CopyIsIsomorphic ==
    (CopyReturned /\ fail.op = "none" /\ FreshDest) =>
        /\ ret.tag = "Ok"
        /\ IsDir(fs, cur.dest_path)
        /\ Tree(fs, cur.dest_path) = Tree(call.fs0, cur.profile_dir)

\* a nested file, a top-level file and their contents arrived
C1_Witness ==
    /\ CopyReturned
    /\ fail.op = "none"
    /\ FreshDest
    /\ IsFile(fs, Join(cur.dest_path, "save1.dat"))
    /\ IsFile(fs, Join(Join(cur.dest_path, "meta"), "info.json"))
    /\ fs[Join(Join(cur.dest_path, "meta"), "info.json")].content = 1

\* C9: once a filesystem operation of the copier has failed, the call returns
\* an error without touching the filesystem again: no further entry is
\* copied and everything written before the failure stays in place.
C9_FailureAbortsAndKeeps ==
    (call.op = "scumm_profile" /\ fail.op # "none") =>
        /\ fs = fail.fs
        /\ \A p \in writes : Exists(fs, p)
        /\ \A p \in DOMAIN call.fs0 : Exists(fs, p)
        /\ ret.tag = "Err"
        /\ pc # "copy" => stack = <<>>

\* a nested failure after a file was copied, with an entry left uncopied
C9_Witness ==
    /\ call.op = "scumm_profile"
    /\ CopyReturned
    /\ fail.op = "copy"
    /\ fail.depth = 1
    /\ Join(cur.dest_path, "save1.dat") \in writes
    /\ Exists(fs, Join(cur.dest_path, "save1.dat"))
    /\ ~Exists(fs, Join(Join(cur.dest_path, "meta"), "info.json"))

\* some message of the chain names both paths
NamesBoth(chain, a, b) ==
    \E i \in 1..Len(chain) :
        /\ \E j \in 1..Len(chain[i].names) : chain[i].names[j] = a
        /\ \E j \in 1..Len(chain[i].names) : chain[i].names[j] = b

\* C10: every error the copier returns, as scumm_profile hands it on, carries
\* a context message naming both the source and the destination path of the
\* operation that failed.
C10_ErrorNamesBothPaths ==
    (pc \in {"idle", "m_report", "exit"} /\ scummRes.tag = "Err" /\ fail.op # "none") =>
        NamesBoth(scummRes.err, fail.src, fail.dst)

(***************************** claims: two runs ****************************)
BothRunsOk == Len(runs) = 2 /\ runs[1].tag = "Ok" /\ runs[2].tag = "Ok"

Name(p) == p[Len(p)]

\* each destination holds the profile as it was when its run started
BothFaithful ==
    /\ runs[1].dest # runs[2].dest
    /\ Tree(fs, runs[1].dest) = runs[1].tree
    /\ Tree(fs, runs[2].dest) = runs[2].tree

\* C7 as stated: two consecutive successful runs produce two distinct
\* destinations, each a faithful copy of the profile at the time of its run.
C7_TwoRunsDistinct == BothRunsOk => BothFaithful

\* C7 amended: ... provided the two runs read different instants of the clock
\* and the backup store held no entry of either name before the first run.
C7_TwoRunsDistinctIfClockMoves ==
    (/\ BothRunsOk
     /\ runs[1].now # runs[2].now
     /\ Name(runs[1].dest) \notin runs[1].before
     /\ FormatTimestamp(runs[2].now) \notin runs[1].before) => BothFaithful

\* the game saved between the runs, so the two copies differ
C7_Witness ==
    /\ BothRunsOk
    /\ runs[1].now # runs[2].now
    /\ Name(runs[1].dest) \notin runs[1].before
    /\ FormatTimestamp(runs[2].now) \notin runs[1].before
    /\ runs[1].tree # runs[2].tree
    /\ <<"save1.dat">> \in DOMAIN runs[1].tree

(***************************** claims: main ********************************)
\* the save root, as main found it, holds two or more entries and each has a
\* profiles child
TwoOrMoreProfiles ==
    /\ call.op = "main"
    /\ Listed
    /\ Len(call.order) >= 2
    /\ MissingProfiles(call.fs0, ListedDirs) = {}

\* the copier was entered in this run
CopyInvoked == stack # <<>> \/ ret.tag # "None" \/ writes # {} \/ cur.dest_path # <<>>

\* C2: with two or more identity directories that each have a profiles
\* child, main prints the unsupported-configuration message and returns
\* without calling the copier or creating anything.
C2_TwoProfilesNoCopy ==
    TwoOrMoreProfiles =>
        /\ pc = "exit"
        /\ exit = "returned"
        /\ Len(stdout) = 1
        /\ stdout[1].text = "Found {} profile dirs, but currently only support 1 dir"
        /\ stdout[1].n = Len(call.order)
        /\ ~CopyInvoked
        /\ fs = call.fs0

C2_Witness ==
    /\ TwoOrMoreProfiles
    /\ pc = "exit"
    /\ Len(findRes.val) = 2

\* C8: every run of main ends with one printed line and a normal return; the
\* only panic is the assertion on an Ok but empty list of profile dirs.
C8_OnlyTheAssertionPanics ==
    pc = "exit" =>
        \/ exit = "returned" /\ Len(stdout) = 1
        \/ exit = "panicked" /\ findRes.tag = "Ok" /\ findRes.val = <<>>

====
